---- MODULE Spec2Model ----
(***************************************************************************)
(* The session of chrome-debugging-client: createSession and the Session   *)
(* class, in its two drafts.                                               *)
(*                                                                         *)
(*   draft = "SessionImpl"   src/lib/session.ts                            *)
(*       dispose() is Promise.all(disposables.map(d => d.dispose()))       *)
(*   draft = "Session"       src/unnamed/part_000                          *)
(*       dispose() is the loop  while (d = disposables.pop()) await ...    *)
(*                                                                         *)
(* createSession, spawn / spawnBrowser, createAPIClient and                *)
(* openDebuggingProtocol are the same code in both drafts.                 *)
(*                                                                         *)
(* Every async function is cut at its awaits: one action runs the code     *)
(* from a call (or from the settling of the awaited promise) up to the     *)
(* next await, as one JavaScript turn does.  The collaborators (resolver,  *)
(* tmpdir creator, spawner, web socket opener, and the dispose() of each   *)
(* resource) succeed or fail nondeterministically.  The callback handed to *)
(* createSession is any program: it may call the session's methods in any  *)
(* order and end by returning, throwing or rejecting.  Under Spec it       *)
(* awaits every promise the session hands it, so that the session is used  *)
(* by one flow of control; under SpecConcurrent it need not; under         *)
(* SpecSpawns it starts spawn calls, several at a time, and awaits them    *)
(* together.                                                               *)
(***************************************************************************)
EXTENDS Integers, Sequences, FiniteSets, TLC

\* Bounds of the model.
MaxCalls == 3      \* calls of the session's methods the callback makes
MaxTracked == 2    \* resources those calls can come to push in all
MaxFailures == 2   \* dispose() calls of resources that reject

VARIABLES
    draft,            \* which draft of the class runs
    disposables,      \* Session.disposables : Disposable[]
    calls,            \* the spawn / openDebuggingProtocol calls, in call order
    sweeps,           \* the dispose() calls, in call order
    apiClients,       \* number of APIClients createAPIClient has returned
    pc,               \* position of createSession
    cbAwaits,         \* the callback awaits every promise the session hands it
    cbOutcome,        \* how the callback ended
    outcome,          \* the promise createSession returned
    cbSync,           \* the callback is still in its first synchronous turn
    finallySweep      \* index in sweeps of the dispose() of the finally block

vars == <<draft, disposables, calls, sweeps, apiClients, pc, cbAwaits,
          cbOutcome, outcome, cbSync, finallySweep>>

----------------------------------------------------------------------------
\* Values

\* A resource is named by its kind and the call that acquired it.
Res(k, c) == [kind |-> k, call |-> c]

\* An error is named by where it was thrown: by the callback, or by the
\* dispose() of a resource (which fails by rejecting the promise it returns).
ReleaseError(r) == [src |-> "release", res |-> r]
CallbackError == [src |-> "callback", res |-> Res("none", 0)]

Range(s) == {s[i] : i \in 1..Len(s)}
\* Position of x in the duplicate-free sequence s, 0 when absent.
IndexOf(s, x) == IF x \in Range(s) THEN CHOOSE i \in 1..Len(s) : s[i] = x ELSE 0

\* The resources whose acquisition step has succeeded (its await resumed
\* with a value), read off the positions of the calls.
Acquired ==
    {Res("tmpDir", i) : i \in {j \in 1..Len(calls) :
        calls[j].op = "spawn" /\ "spawn" \in calls[j].invoked}}
    \cup {Res("process", i) : i \in {j \in 1..Len(calls) :
        calls[j].op = "spawn" /\ calls[j].pc = "fulfilled"}}
    \cup {Res("connection", i) : i \in {j \in 1..Len(calls) :
        calls[j].op = "openDebuggingProtocol" /\ calls[j].pc = "fulfilled"}}

\* The resources pushed so far plus those the calls in flight can still push.
Reserved ==
    Cardinality(Acquired)
    + 2 * Cardinality({j \in 1..Len(calls) : calls[j].pc = "awaitCreate"})
    + Cardinality({j \in 1..Len(calls) : calls[j].pc \in {"awaitSpawn", "awaitOpen"}})

\* The releases that have rejected so far, as <<dispose() call, resource>>.
Failures == {<<s, r>> \in (1..Len(sweeps)) \X Acquired : r \in sweeps[s].failed}

\* The release invocations made so far, over all dispose() calls.
Released == UNION {Range(sweeps[s].started) : s \in 1..Len(sweeps)}
\* How many times r.dispose() has been invoked.
ReleaseCount(r) ==
    Cardinality({<<s, i>> \in (1..Len(sweeps)) \X (1..(MaxTracked + MaxCalls)) :
        i <= Len(sweeps[s].started) /\ sweeps[s].started[i] = r})

----------------------------------------------------------------------------
\* State after `new SessionImpl(...)` / `new Session(...)`, at the call cb(session).

Start ==
    /\ draft \in {"SessionImpl", "Session"}
    /\ disposables = <<>>
    /\ calls = <<>>
    /\ sweeps = <<>>
    /\ apiClients = 0
    /\ pc = "cb"
    /\ cbOutcome = "none"
    /\ outcome = [kind |-> "pending", errors |-> {}]
    /\ cbSync = TRUE
    /\ finallySweep = 0

Init == Start /\ cbAwaits = TRUE

InitConcurrent == Start /\ cbAwaits = FALSE

----------------------------------------------------------------------------
\* dispose()

\* The calls whose promise has settled.
SettledCalls == {c \in 1..Len(calls) : calls[c].pc \in {"fulfilled", "rejected"}}

\* The dispose() calls whose promise is pending.
PendingSweeps == {s \in 1..Len(sweeps) : sweeps[s].pc = "pending"}

\* The callback can run: it has not ended and, when it awaits every promise
\* the session hands it, none of them is pending.
CallbackRuns ==
    /\ pc = "cb"
    /\ cbAwaits => (SettledCalls = 1..Len(calls) /\ PendingSweeps = {})

\* The callback can call one more method of the session.
CallbackCalls ==
    /\ CallbackRuns
    /\ Len(calls) + Len(sweeps) + apiClients < MaxCalls

\* A dispose() call: who made it; as history, the tracked sequence it found
\* and the calls that had settled when it was made; the releases it invoked
\* in invocation order, those still pending, those that failed, and the
\* state and rejection reason of the promise it returned.
Sweep(caller, started, pending, state) ==
    [caller |-> caller, snapshot |-> disposables, before |-> SettledCalls,
     started |-> started, pending |-> pending, failed |-> {}, pc |-> state,
     error |-> {}]

\* SessionImpl.dispose: map() invokes every dispose() in array order, in the
\* calling turn; Promise.all of no promise is fulfilled.  The array is kept.
SessionImpl_dispose(caller) ==
    /\ sweeps' = Append(sweeps,
          Sweep(caller, disposables, Range(disposables),
                IF disposables = <<>> THEN "fulfilled" ELSE "pending"))
    /\ UNCHANGED disposables

\* Session.dispose up to its first await: pop the last element; undefined
\* ends the loop, otherwise invoke its dispose() and await it.
Session_dispose(caller) ==
    IF disposables = <<>>
    THEN /\ sweeps' = Append(sweeps, Sweep(caller, <<>>, {}, "fulfilled"))
         /\ UNCHANGED disposables
    ELSE LET disposable == disposables[Len(disposables)] IN
         /\ sweeps' = Append(sweeps, Sweep(caller, <<disposable>>, {disposable}, "pending"))
         /\ disposables' = SubSeq(disposables, 1, Len(disposables) - 1)

dispose(caller) ==
    IF draft = "SessionImpl" THEN SessionImpl_dispose(caller) ELSE Session_dispose(caller)

\* SessionImpl: one of the promises handed to Promise.all settles.  The first
\* rejection rejects Promise.all with that reason alone; the last fulfilment
\* fulfils it.  Releases still pending when it rejects go on.
SessionImpl_releaseSettles(s, r, ok) ==
    /\ draft = "SessionImpl"
    /\ r \in sweeps[s].pending
    /\ ~ok => Cardinality(Failures) < MaxFailures
    /\ LET sw == sweeps[s]
           left == sw.pending \ {r}
       IN sweeps' = [sweeps EXCEPT ![s] =
            [sw EXCEPT !.pending = left,
                       !.failed = IF ok THEN @ ELSE @ \cup {r},
                       !.pc = IF sw.pc # "pending" THEN @
                              ELSE IF ~ok THEN "rejected"
                              ELSE IF left = {} THEN "fulfilled" ELSE "pending",
                       !.error = IF sw.pc = "pending" /\ ~ok
                                 THEN {ReleaseError(r)} ELSE @]]
    /\ cbSync' = FALSE
    /\ UNCHANGED <<cbAwaits, draft, disposables, calls, apiClients, pc, cbOutcome,
                   outcome, finallySweep>>

\* A faulty pop loop, which puts a resource whose release rejected back at
\* the end of the array.
Session_releaseSettles_requeue(s, ok) ==
    /\ draft = "Session"
    /\ sweeps[s].pc = "pending"
    /\ ~ok => Cardinality(Failures) < MaxFailures
    /\ LET sw == sweeps[s]
           r == CHOOSE x \in sw.pending : TRUE
       IN IF ~ok
          THEN /\ sweeps' = [sweeps EXCEPT ![s] =
                    [sw EXCEPT !.pending = {}, !.failed = @ \cup {r},
                               !.pc = "rejected", !.error = {ReleaseError(r)}]]
               /\ disposables' = Append(disposables, r)
          ELSE IF disposables = <<>>
          THEN /\ sweeps' = [sweeps EXCEPT ![s] =
                    [sw EXCEPT !.pending = {}, !.pc = "fulfilled"]]
               /\ UNCHANGED disposables
          ELSE LET disposable == disposables[Len(disposables)] IN
               /\ sweeps' = [sweeps EXCEPT ![s] =
                    [sw EXCEPT !.pending = {disposable},
                               !.started = Append(@, disposable)]]
               /\ disposables' = SubSeq(disposables, 1, Len(disposables) - 1)
    /\ cbSync' = FALSE
    /\ UNCHANGED <<cbAwaits, draft, calls, apiClients, pc, cbOutcome, outcome,
                   finallySweep>>

\* Session: the awaited dispose() settles.  Rejected: the async function
\* rejects with that reason and the loop is left.  Fulfilled: the loop pops
\* again.
Session_releaseSettles(s, ok) ==
    /\ draft = "Session"
    /\ sweeps[s].pc = "pending"
    /\ ~ok => Cardinality(Failures) < MaxFailures
    /\ LET sw == sweeps[s]
           r == CHOOSE x \in sw.pending : TRUE
       IN IF ~ok
          THEN /\ sweeps' = [sweeps EXCEPT ![s] =
                    [sw EXCEPT !.pending = {}, !.failed = @ \cup {r},
                               !.pc = "rejected", !.error = {ReleaseError(r)}]]
               /\ UNCHANGED disposables
          ELSE IF disposables = <<>>
          THEN /\ sweeps' = [sweeps EXCEPT ![s] =
                    [sw EXCEPT !.pending = {}, !.pc = "fulfilled"]]
               /\ UNCHANGED disposables
          ELSE LET disposable == disposables[Len(disposables)] IN
               /\ sweeps' = [sweeps EXCEPT ![s] =
                    [sw EXCEPT !.pending = {disposable},
                               !.started = Append(@, disposable)]]
               /\ disposables' = SubSeq(disposables, 1, Len(disposables) - 1)
    /\ cbSync' = FALSE
    /\ UNCHANGED <<cbAwaits, draft, calls, apiClients, pc, cbOutcome, outcome,
                   finallySweep>>

----------------------------------------------------------------------------
\* The acquisition pipelines

\* A call of spawn / openDebuggingProtocol: where it stands, which
\* collaborators it has invoked, the error it rejected with and the value it
\* was fulfilled with.
Call(op, at, invoked, error) ==
    [op |-> op, pc |-> at, invoked |-> invoked, error |-> error,
     result |-> Res("none", 0)]

\* A faulty spawn, which invokes tmpDirCreator.create() before resolve().
spawn_createFirst ==
    /\ CallbackCalls
    /\ \E resolved \in BOOLEAN :
         /\ resolved => Reserved + 2 <= MaxTracked
         /\ calls' = Append(calls,
               IF resolved
               THEN Call("spawn", "awaitCreate", {"resolve", "create"}, "none")
               ELSE Call("spawn", "rejected", {"create", "resolve"}, "UnresolvedBrowser"))
    /\ UNCHANGED <<cbAwaits, draft, disposables, sweeps, apiClients, pc, cbOutcome,
                   outcome, cbSync, finallySweep>>

\* spawn / spawnBrowser up to its first await: resolve() runs in the calling
\* turn and may throw; otherwise tmpDirCreator.create() is invoked and awaited.
\* The model lets the call run as long as the resources tracked stay within cap.
spawnWithin(cap) ==
    /\ \E resolved \in BOOLEAN :
         /\ resolved => Reserved + 2 <= cap
         /\ calls' = Append(calls,
               IF resolved
               THEN Call("spawn", "awaitCreate", {"resolve", "create"}, "none")
               ELSE Call("spawn", "rejected", {"resolve"}, "UnresolvedBrowser"))
    /\ UNCHANGED <<cbAwaits, draft, disposables, sweeps, apiClients, pc, cbOutcome,
                   outcome, cbSync, finallySweep>>

spawn == CallbackCalls /\ spawnWithin(MaxTracked)

\* A spawn call made while earlier spawn calls are in flight, by a callback
\* that awaits them together (await Promise.all([spawn(), spawn()])): room
\* for the tmpDir and the process of one more call.
spawn_concurrent ==
    /\ pc = "cb"
    /\ Len(calls) + Len(sweeps) + apiClients < MaxCalls
    /\ spawnWithin(MaxTracked + 2)

\* A faulty spawn, which does not push the tmpDir that create() resolved with.
spawn_afterCreate_untracked(c, ok) ==
    /\ calls[c].pc = "awaitCreate"
    /\ IF ok
       THEN /\ calls' = [calls EXCEPT ![c] =
                 Call("spawn", "awaitSpawn", {"resolve", "create", "spawn"}, "none")]
            /\ UNCHANGED disposables
       ELSE /\ calls' = [calls EXCEPT ![c].pc = "rejected",
                                      ![c].error = "ResourceAcquisitionFailed"]
            /\ UNCHANGED disposables
    /\ cbSync' = FALSE
    /\ UNCHANGED <<cbAwaits, draft, sweeps, apiClients, pc, cbOutcome, outcome,
                   finallySweep>>

\* create() settles: on a value the tmpDir is pushed and spawner.spawn() is
\* invoked and awaited; on a rejection the call rejects.
spawn_afterCreate(c, ok) ==
    /\ calls[c].pc = "awaitCreate"
    /\ IF ok
       THEN /\ disposables' = Append(disposables, Res("tmpDir", c))
            /\ calls' = [calls EXCEPT ![c] =
                 Call("spawn", "awaitSpawn", {"resolve", "create", "spawn"}, "none")]
       ELSE /\ calls' = [calls EXCEPT ![c].pc = "rejected",
                                      ![c].error = "ResourceAcquisitionFailed"]
            /\ UNCHANGED disposables
    /\ cbSync' = FALSE
    /\ UNCHANGED <<cbAwaits, draft, sweeps, apiClients, pc, cbOutcome, outcome,
                   finallySweep>>

\* A faulty spawn, which puts the process at the front of the array
\* (unshift for push).
spawn_afterSpawn_unshift(c, ok) ==
    /\ calls[c].pc = "awaitSpawn"
    /\ IF ok
       THEN /\ disposables' = <<Res("process", c)>> \o disposables
            /\ calls' = [calls EXCEPT ![c].pc = "fulfilled",
                                      ![c].result = Res("process", c)]
       ELSE /\ calls' = [calls EXCEPT ![c].pc = "rejected",
                                      ![c].error = "SpawnFailed"]
            /\ UNCHANGED disposables
    /\ cbSync' = FALSE
    /\ UNCHANGED <<cbAwaits, draft, sweeps, apiClients, pc, cbOutcome, outcome,
                   finallySweep>>

\* spawner.spawn() settles: on a value the process is pushed and returned;
\* on a rejection the call rejects.
spawn_afterSpawn(c, ok) ==
    /\ calls[c].pc = "awaitSpawn"
    /\ IF ok
       THEN /\ disposables' = Append(disposables, Res("process", c))
            /\ calls' = [calls EXCEPT ![c].pc = "fulfilled",
                                      ![c].result = Res("process", c)]
       ELSE /\ calls' = [calls EXCEPT ![c].pc = "rejected",
                                      ![c].error = "SpawnFailed"]
            /\ UNCHANGED disposables
    /\ cbSync' = FALSE
    /\ UNCHANGED <<cbAwaits, draft, sweeps, apiClients, pc, cbOutcome, outcome,
                   finallySweep>>

\* A faulty createAPIClient, which hands the client it made to the session.
createAPIClient_tracked ==
    /\ CallbackCalls
    /\ apiClients' = apiClients + 1
    /\ disposables' = Append(disposables, Res("apiClient", apiClients + 1))
    /\ UNCHANGED <<cbAwaits, draft, calls, sweeps, pc, cbOutcome, outcome, cbSync,
                   finallySweep>>

\* createAPIClient: composes the two factories; touches nothing of the session.
createAPIClient ==
    /\ CallbackCalls
    /\ apiClients' = apiClients + 1
    /\ UNCHANGED <<cbAwaits, draft, disposables, calls, sweeps, pc, cbOutcome, outcome,
                   cbSync, finallySweep>>

\* openDebuggingProtocol up to its await: the protocol client is created and
\* webSocketOpener.open() is invoked and awaited.
openDebuggingProtocol ==
    /\ CallbackCalls
    /\ Reserved + 1 <= MaxTracked
    /\ calls' = Append(calls,
          Call("openDebuggingProtocol", "awaitOpen", {"create", "open"}, "none"))
    /\ UNCHANGED <<cbAwaits, draft, disposables, sweeps, apiClients, pc, cbOutcome,
                   outcome, cbSync, finallySweep>>

\* A faulty openDebuggingProtocol, which pushes the protocol client it
\* returns in place of the connection.
openDebuggingProtocol_afterOpen_pushClient(c, ok) ==
    /\ calls[c].pc = "awaitOpen"
    /\ IF ok
       THEN /\ disposables' = Append(disposables, Res("debuggingProtocol", c))
            /\ calls' = [calls EXCEPT ![c].pc = "fulfilled",
                                      ![c].result = Res("debuggingProtocol", c)]
       ELSE /\ calls' = [calls EXCEPT ![c].pc = "rejected",
                                      ![c].error = "ConnectionFailed"]
            /\ UNCHANGED disposables
    /\ cbSync' = FALSE
    /\ UNCHANGED <<cbAwaits, draft, sweeps, apiClients, pc, cbOutcome, outcome,
                   finallySweep>>

\* open() settles: on a value the connection is pushed and the protocol
\* client returned; on a rejection the call rejects.
openDebuggingProtocol_afterOpen(c, ok) ==
    /\ calls[c].pc = "awaitOpen"
    /\ IF ok
       THEN /\ disposables' = Append(disposables, Res("connection", c))
            /\ calls' = [calls EXCEPT ![c].pc = "fulfilled",
                                      ![c].result = Res("debuggingProtocol", c)]
       ELSE /\ calls' = [calls EXCEPT ![c].pc = "rejected",
                                      ![c].error = "ConnectionFailed"]
            /\ UNCHANGED disposables
    /\ cbSync' = FALSE
    /\ UNCHANGED <<cbAwaits, draft, sweeps, apiClients, pc, cbOutcome, outcome,
                   finallySweep>>

----------------------------------------------------------------------------
\* createSession and its callback

\* The callback calls session.dispose() itself.
cb_dispose ==
    /\ CallbackCalls
    /\ dispose("cb")
    /\ UNCHANGED <<cbAwaits, draft, calls, apiClients, pc, cbOutcome, outcome, cbSync,
                   finallySweep>>

\* cb(session) ends and the finally block invokes session.dispose() and
\* awaits it.  The callback ends by returning a value or a promise that is
\* fulfilled ("value"), by throwing in the calling turn ("throw"), or by
\* returning a promise that is rejected ("reject").
createSession_finally ==
    /\ CallbackRuns
    /\ \E k \in {"value", "throw", "reject"} :
         /\ k = "throw" => cbSync
         /\ cbOutcome' = k
    /\ dispose("createSession")
    /\ finallySweep' = Len(sweeps) + 1
    /\ pc' = "awaitDispose"
    /\ UNCHANGED <<cbAwaits, draft, calls, apiClients, outcome, cbSync>>

\* `await session.dispose()` resumes.  A rejection is thrown out of the
\* finally block and becomes the outcome; otherwise the completion of the try
\* block (the returned value, or the callback's error) is the outcome.
createSession_settles ==
    /\ pc = "awaitDispose"
    /\ sweeps[finallySweep].pc # "pending"
    /\ outcome' =
         IF sweeps[finallySweep].pc = "rejected"
         THEN [kind |-> "rejected", errors |-> sweeps[finallySweep].error]
         ELSE IF cbOutcome = "value"
         THEN [kind |-> "fulfilled", errors |-> {}]
         ELSE [kind |-> "rejected", errors |-> {CallbackError}]
    /\ pc' = "settled"
    /\ cbSync' = FALSE
    /\ UNCHANGED <<cbAwaits, draft, disposables, calls, sweeps, apiClients, cbOutcome,
                   finallySweep>>

----------------------------------------------------------------------------

Next ==
    \/ spawn
    \/ \E c \in 1..Len(calls), ok \in BOOLEAN : spawn_afterCreate(c, ok)
    \/ \E c \in 1..Len(calls), ok \in BOOLEAN : spawn_afterSpawn(c, ok)
    \/ createAPIClient
    \/ openDebuggingProtocol
    \/ \E c \in 1..Len(calls), ok \in BOOLEAN : openDebuggingProtocol_afterOpen(c, ok)
    \/ cb_dispose
    \/ \E s \in 1..Len(sweeps), ok \in BOOLEAN :
          \E r \in sweeps[s].pending : SessionImpl_releaseSettles(s, r, ok)
    \/ \E s \in 1..Len(sweeps), ok \in BOOLEAN : Session_releaseSettles(s, ok)
    \/ createSession_finally
    \/ createSession_settles

\* The callback awaits every promise the session hands it.
Spec == Init /\ [][Next]_vars

\* The callback awaits none of them: it may act while calls are in flight.
SpecConcurrent == InitConcurrent /\ [][Next]_vars

\* The callback only launches browsers: it starts spawn calls, which
\* interleave at their awaits, and ends when all of them have settled.
NextSpawns ==
    \/ spawn_concurrent
    \/ \E c \in 1..Len(calls), ok \in BOOLEAN : spawn_afterCreate(c, ok)
    \/ \E c \in 1..Len(calls), ok \in BOOLEAN : spawn_afterSpawn(c, ok)
    \/ \E s \in 1..Len(sweeps), ok \in BOOLEAN :
          \E r \in sweeps[s].pending : SessionImpl_releaseSettles(s, r, ok)
    \/ \E s \in 1..Len(sweeps), ok \in BOOLEAN : Session_releaseSettles(s, ok)
    \/ createSession_finally
    \/ createSession_settles

SpecSpawns == Init /\ [][NextSpawns]_vars

----------------------------------------------------------------------------
\* Properties

SweepIds == 1..Len(sweeps)
IsSettled(s) == sweeps[s].pc # "pending"
TmpDirOf(c) == Res("tmpDir", c)

\* C1: in every dispose() call, the releases invoked on the resources the call
\* found tracked come in the reverse of the order in which those resources
\* were appended (A, B, C tracked: C, B, A released).
C1_ReverseOrder ==
    \A s \in SweepIds :
        LET sw == sweeps[s] IN
        \A i, j \in 1..Len(sw.started) :
            (/\ i < j
             /\ sw.started[i] \in Range(sw.snapshot)
             /\ sw.started[j] \in Range(sw.snapshot))
            => IndexOf(sw.snapshot, sw.started[i]) > IndexOf(sw.snapshot, sw.started[j])

\* C2: once a dispose() call has settled, the release of every resource it
\* found tracked has been invoked, whichever releases failed.
C2_Total ==
    \A s \in SweepIds :
        IsSettled(s) => Range(sweeps[s].snapshot) \subseteq Released

\* C3: a settled dispose() call in which releases failed is rejected, and its
\* rejection carries the error of every release that failed.
C3_Aggregated ==
    \A s \in SweepIds :
        (IsSettled(s) /\ sweeps[s].failed # {})
        => /\ sweeps[s].pc = "rejected"
           /\ \A r \in sweeps[s].failed : ReleaseError(r) \in sweeps[s].error

\* C4: when a dispose() call settles, fulfilled or rejected, the tracked
\* sequence is empty; and a dispose() call made on the empty sequence invokes
\* no release and is fulfilled.
C4_EmptyAfter ==
    [][/\ \A s \in SweepIds :
            (sweeps[s].pc = "pending" /\ sweeps'[s].pc # "pending")
            => disposables' = <<>>
       /\ (Len(sweeps') = Len(sweeps) + 1 /\ disposables = <<>>)
            => /\ sweeps'[Len(sweeps')].started = <<>>
               /\ sweeps'[Len(sweeps')].pc = "fulfilled"]_vars

\* C5: over all the dispose() calls made on the session, the release of each
\* resource is invoked at most once.
C5_AtMostOnce ==
    \A r \in Acquired : ReleaseCount(r) <= 1

\* C6: when create() succeeded and spawn() then failed, the spawn call is
\* rejected, the tmpDir is tracked until a dispose() call releases it, and
\* every dispose() call made after the failure has, once settled, invoked the
\* release of that tmpDir.
C6_TmpDirKept ==
    \A c \in 1..Len(calls) :
        calls[c].error = "SpawnFailed"
        => /\ calls[c].pc = "rejected"
           /\ TmpDirOf(c) \in Range(disposables) \cup Released
           /\ \A s \in SweepIds :
                (c \in sweeps[s].before /\ IsSettled(s)) => TmpDirOf(c) \in Released

\* C7: createSession invokes session.dispose() exactly once, whatever the
\* callback did, and its promise settles only after that dispose() has; and
\* when the callback failed, the resources tracked at that point have had
\* their release invoked by the time createSession settles.
C7_DisposedOnce ==
    /\ Cardinality({s \in SweepIds : sweeps[s].caller = "createSession"})
         = IF pc = "cb" THEN 0 ELSE 1
    /\ pc = "settled" => IsSettled(finallySweep)
    /\ (pc = "settled" /\ cbOutcome \in {"throw", "reject"})
         => Range(sweeps[finallySweep].snapshot) \subseteq Released

\* C8: when the callback failed, createSession rejects with a failure that
\* carries the callback's error, and with it the disposal's error when the
\* disposal failed too.
C8_CallbackErrorKept ==
    (pc = "settled" /\ cbOutcome \in {"throw", "reject"})
    => /\ outcome.kind = "rejected"
       /\ CallbackError \in outcome.errors
       /\ sweeps[finallySweep].pc = "rejected"
            => sweeps[finallySweep].error \subseteq outcome.errors

\* C9: at the step that settles the promise of createSession, every resource
\* acquired so far has had its release invoked exactly once.
C9_AllReleasedOnce ==
    [][(pc = "awaitDispose" /\ pc' = "settled")
       => \A r \in Acquired : ReleaseCount(r) = 1]_vars

\* C10: createAPIClient leaves the tracked sequence and the dispose() calls
\* as they are, and all that is ever tracked or released is a resource that
\* spawn or openDebuggingProtocol acquired.
C10_APIClientUntracked ==
    /\ [][apiClients' # apiClients
          => disposables' = disposables /\ sweeps' = sweeps]_vars
    /\ [](Range(disposables) \cup Released \subseteq Acquired)

\* C10, the case: createAPIClient was called, and the dispose() of the finally
\* block went on to release what spawn and openDebuggingProtocol had tracked.
C10_Case ==
    /\ apiClients >= 1
    /\ pc = "settled"
    /\ sweeps[finallySweep].pc = "fulfilled"
    /\ Len(sweeps[finallySweep].started) >= 2

\* C11: as long as no dispose() call has been made, the tracked sequence holds
\* exactly the resources acquired so far, each once, and none of them has been
\* released; and it holds them in acquisition order: a step that acquires a
\* resource appends it at the end, and every other step leaves the sequence
\* as it is.
C11_TrackedIsAcquired ==
    /\ [](sweeps = <<>>
          => /\ Range(disposables) = Acquired
             /\ Len(disposables) = Cardinality(Acquired)
             /\ Released = {})
    /\ [][(sweeps = <<>> /\ sweeps' = <<>>)
          => IF Acquired' = Acquired
             THEN disposables' = disposables
             ELSE \E r \in Acquired' \ Acquired :
                     /\ Acquired' = Acquired \cup {r}
                     /\ disposables' = Append(disposables, r)]_vars

\* C11, the case: a spawn call has pushed its tmpDir and then its process, and
\* no dispose() call has been made yet.
C11_Case ==
    /\ sweeps = <<>>
    /\ \E c \in 1..Len(calls) :
          disposables = <<Res("tmpDir", c), Res("process", c)>>

ProcessOf(c) == Res("process", c)
\* The releases that have been invoked and have not settled yet.
InProgress == UNION {sweeps[s].pending : s \in SweepIds}

Unresolved == {c \in 1..Len(calls) : calls[c].error = "UnresolvedBrowser"}

\* C13: a spawn call whose resolve() throws is rejected in the turn of the
\* call and leaves the tracked sequence as it is; neither create() nor the
\* spawner is ever invoked for it, and it never acquires or tracks a resource.
C13_ResolverFails ==
    /\ [](\A c \in Unresolved :
            /\ calls[c].pc = "rejected"
            /\ calls[c].invoked = {"resolve"}
            /\ \A r \in Acquired \cup Range(disposables) : r.call # c)
    /\ [][Unresolved' # Unresolved => disposables' = disposables]_vars

\* C13, the case: resolve() threw while a connection was tracked, and the
\* callback went on to its end.
C13_Case ==
    /\ \E c \in Unresolved : \E r \in Range(disposables) : r.call < c
    /\ pc # "cb"

\* C14: when open() rejects, the openDebuggingProtocol call is rejected with
\* ConnectionFailed and the tracked sequence is left as it is; when open()
\* resolves, the connection, and nothing else, is appended, and the call is
\* fulfilled with the protocol client.  A call that was rejected never has a
\* resource tracked or released.
C14_OpenHandshake ==
    /\ [][\A c \in 1..Len(calls) :
            calls[c].pc = "awaitOpen"
            => /\ calls'[c].pc = "rejected"
                   => /\ calls'[c].error = "ConnectionFailed"
                      /\ disposables' = disposables
               /\ calls'[c].pc = "fulfilled"
                   => /\ disposables' = Append(disposables, Res("connection", c))
                      /\ calls'[c].result = Res("debuggingProtocol", c)]_vars
    /\ [](\A c \in 1..Len(calls) :
            calls[c].error = "ConnectionFailed"
            => \A r \in Range(disposables) \cup Released : r.call # c)

\* C14, the case: one openDebuggingProtocol call was rejected and another
\* fulfilled, its connection being tracked.
C14_Case ==
    \E c, d \in 1..Len(calls) :
        /\ calls[c].error = "ConnectionFailed"
        /\ calls[d].result = Res("debuggingProtocol", d)
        /\ Res("connection", d) \in Range(disposables)

\* C15: in a spawn call, the tmpDir is appended in the turn that goes on to
\* invoke the spawner, which had not been invoked before; the turn that
\* fulfils the call finds that tmpDir last in the tracked sequence, appends
\* the process behind it, and fulfils the call with the process.  The call
\* tracks these two resources and no other.
C15_SpawnTracksTwo ==
    /\ [][\A c \in 1..Len(calls) :
            /\ (calls[c].pc = "awaitCreate" /\ "spawn" \in calls'[c].invoked)
                 => /\ "spawn" \notin calls[c].invoked
                    /\ disposables' = Append(disposables, TmpDirOf(c))
            /\ (calls[c].pc = "awaitSpawn" /\ calls'[c].pc = "fulfilled")
                 => /\ disposables # <<>>
                    /\ disposables[Len(disposables)] = TmpDirOf(c)
                    /\ disposables' = Append(disposables, ProcessOf(c))
                    /\ calls'[c].result = ProcessOf(c)]_vars
    /\ [](\A c \in 1..Len(calls) :
            (calls[c].op = "spawn" /\ calls[c].pc = "fulfilled")
            => {r \in Range(disposables) \cup Released : r.call = c}
                 = {TmpDirOf(c), ProcessOf(c)})

\* C15, the case: a spawn call was fulfilled with its process, and its tmpDir
\* and its process are what is tracked.
C15_Case ==
    \E c \in 1..Len(calls) :
        /\ calls[c].pc = "fulfilled"
        /\ calls[c].result = ProcessOf(c)
        /\ Len(disposables) = 2
        /\ disposables[1] = TmpDirOf(c)
        /\ disposables[2] = ProcessOf(c)

\* C16: when spawn calls interleave, the process of a call is appended after
\* the tmpDir of that call: a process is tracked or released only if its
\* tmpDir is, and wherever both are tracked the tmpDir comes first.  So the
\* pop loop (the reverse-order dispose()) that finds both tracked invokes the
\* release of the process before that of the tmpDir.
C16_ProcessAfterTmpDir ==
    /\ \A c \in 1..Len(calls) :
          /\ ProcessOf(c) \in Range(disposables) \cup Released
               => TmpDirOf(c) \in Range(disposables) \cup Released
          /\ (ProcessOf(c) \in Range(disposables) /\ TmpDirOf(c) \in Range(disposables))
               => IndexOf(disposables, TmpDirOf(c)) < IndexOf(disposables, ProcessOf(c))
    /\ draft = "Session"
         => \A s \in SweepIds : \A c \in 1..Len(calls) :
               (/\ ProcessOf(c) \in Range(sweeps[s].snapshot)
                /\ TmpDirOf(c) \in Range(sweeps[s].started))
               => /\ ProcessOf(c) \in Range(sweeps[s].started)
                  /\ IndexOf(sweeps[s].started, ProcessOf(c))
                       < IndexOf(sweeps[s].started, TmpDirOf(c))

\* C16, the case: two spawn calls were in flight together (both tmpDirs were
\* appended before either process), and the pop loop released all four.
C16_Case ==
    /\ draft = "Session"
    /\ \E s \in SweepIds :
          /\ Len(sweeps[s].snapshot) = 4
          /\ sweeps[s].snapshot[1].kind = "tmpDir"
          /\ sweeps[s].snapshot[2].kind = "tmpDir"
          /\ Len(sweeps[s].started) = 4

\* C17: once the promise of createSession has settled, every resource the
\* session tracks has had its release invoked, also when a call the callback
\* did not await pushes its resource after the dispose() of the finally block
\* has started or finished.
C17_NothingLeftTracked ==
    pc = "settled" => Range(disposables) \subseteq Released

\* C18: the promise of a dispose() call settles only when every release that
\* call invoked has settled: no settled dispose() call has a release still
\* in progress.
C18_SettlesAfterReleases ==
    \A s \in SweepIds : IsSettled(s) => sweeps[s].pending = {}

\* C19: in the pop loop (draft "Session"), a resource whose release has been
\* invoked is no longer tracked, and no release is invoked twice.  The turn
\* in which a release rejects invokes no further release and pops nothing:
\* the resource that failed is gone from the tracked sequence, and the
\* resources acquired before it are all still tracked, none of them released.
\* A dispose() call made on what remains starts with its last element, and
\* every dispose() call releases from the end of what it found towards the
\* front.
C19_PopLoop ==
    /\ [](draft = "Session"
          => /\ \A r \in Released : r \notin Range(disposables) /\ ReleaseCount(r) = 1
             /\ \A s \in SweepIds : \A i \in 1..Len(sweeps[s].started) :
                   sweeps[s].started[i]
                     = sweeps[s].snapshot[Len(sweeps[s].snapshot) - i + 1])
    /\ [][draft = "Session"
          => /\ \A s \in SweepIds :
                  (sweeps[s].pc = "pending" /\ sweeps'[s].pc = "rejected")
                  => /\ sweeps'[s].started = sweeps[s].started
                     /\ disposables' = disposables
                     /\ Range(disposables') \cap Released' = {}
                     /\ \A r \in sweeps'[s].failed :
                           disposables'
                             = SubSeq(sweeps[s].snapshot, 1,
                                      IndexOf(sweeps[s].snapshot, r) - 1)
             /\ (Len(sweeps') = Len(sweeps) + 1 /\ disposables # <<>>)
                  => /\ sweeps'[Len(sweeps')].started = <<disposables[Len(disposables)]>>
                     /\ disposables'
                          = SubSeq(disposables, 1, Len(disposables) - 1)]_vars

\* C19, the case: the release of a process rejected in one dispose() call,
\* which left the tmpDir tracked, and a later dispose() call released that
\* tmpDir and nothing else.
C19_Case ==
    /\ draft = "Session"
    /\ \E s, t \in SweepIds : \E c \in 1..Len(calls) :
          /\ s < t
          /\ sweeps[s].failed = {ProcessOf(c)}
          /\ sweeps[s].snapshot = <<TmpDirOf(c), ProcessOf(c)>>
          /\ sweeps[t].snapshot = <<TmpDirOf(c)>>
          /\ sweeps[t].started = <<TmpDirOf(c)>>
          /\ sweeps[t].pc = "fulfilled"

\* C20: when dispose() calls overlap, no release is invoked twice across
\* them: a turn that invokes the release of a resource finds that no dispose()
\* call pending at that moment has invoked it already.
C20_OverlapAtMostOnce ==
    [][\A r \in Acquired :
          ReleaseCount(r)' > ReleaseCount(r)
          => \A s \in PendingSweeps : r \notin Range(sweeps[s].started)]_vars

====
